---- MODULE Spec2Model ----
(***************************************************************************)
(* A model of the rgb command family of bihelix-rgb-cli: one command line  *)
(* invocation at a time loads the stock of its network from the store file *)
(* (Runtime::load), runs one handler of handle_rgb_subcommand on the stock *)
(* in memory and exits.  The store file of each network is the only state  *)
(* that outlives an invocation.                                            *)
(*                                                                         *)
(* The stock itself (rgbstd's Stock: import_*, accept_transfer,            *)
(* store_seal_secret, validation) is a library the sources only call; its  *)
(* operators below follow the specification's sections 4.2 - 4.5.          *)
(***************************************************************************)
EXTENDS Integers, Sequences, FiniteSets, TLC

VARIABLES
    disk,      \* [Networks -> store file]: absent, corrupt, partial or a stock
    pc,        \* position of the running invocation
    net,       \* the network (chain) of the running invocation
    op,        \* the subcommand of the running invocation and its arguments
    stock,     \* runtime.stock: the stock in memory
    loaded,    \* the stock as Runtime::load returned it
    disk0,     \* the store file of net when the invocation started
    status,    \* validation status of the consignment at hand
    cstate,    \* Received / Validating / Accepted / Rejected
    outcome,   \* "none", "ok" (Ok returned), "err" (Err returned), "panic", "crash"
    errKind,   \* the error returned or panicked with
    out,       \* what the invocation printed on stdout
    prev       \* the previous invocation, when it was an accept

vars == <<disk, pc, net, op, stock, loaded, disk0, status, cstate, outcome,
          errKind, out, prev>>

----------------------------------------------------------------------------
(* Data *)

Networks == {"testnet", "bitcoin"}

EmptyStock ==
    [schemata |-> {}, ifaces |-> {}, iimpls |-> {}, contracts |-> {},
     globals |-> {}, known |-> {}, allocs |-> <<>>, closed |-> <<>>,
     secrets |-> {}]

Range(s) == {s[i] : i \in DOMAIN s}

NoDup(s) == \A i, j \in DOMAIN s : s[i] = s[j] => i = j

Ids(reg) == {e[1] : e \in reg}

\* The interface RGB20 and its owned state (assignment) fields, in name order.
IfaceAssignments == <<"assetOwner", "updateRight", "inflationAllowance">>
IfaceGlobals == {"name", "precision"}

\* An allocation: owned state bound to a seal by an operation of a contract.
Alloc(c, f, s, a, t) ==
    [contract |-> c, field |-> f, seal |-> s, amount |-> a, tid |-> t]

\* The transfer consignments the model is run on.  B1 spends the genesis seal
\* s1; B2 carries two transitions, the second of which spends s1 as well; B3
\* is structurally invalid.
Bundles == {"B1", "B2", "B3"}

Transfer(b) ==
    CASE b = "B1" ->
            [id |-> "B1", contract |-> "c1", structErr |-> FALSE,
             transitions |->
                <<[tid |-> 1, inputs |-> {"s1"}, field |-> "assetOwner",
                   seal |-> "s2", amount |-> 10]>>]
      [] b = "B2" ->
            [id |-> "B2", contract |-> "c1", structErr |-> FALSE,
             transitions |->
                <<[tid |-> 2, inputs |-> {"s2"}, field |-> "assetOwner",
                   seal |-> "s3", amount |-> 4],
                  [tid |-> 3, inputs |-> {"s1"}, field |-> "assetOwner",
                   seal |-> "s4", amount |-> 6]>>]
      [] OTHER ->
            [id |-> "B3", contract |-> "c1", structErr |-> TRUE,
             transitions |->
                <<[tid |-> 4, inputs |-> {}, field |-> "assetOwner",
                   seal |-> "s5", amount |-> 99]>>]

TransferAllocs(b) ==
    LET t == Transfer(b) IN
    {Alloc(t.contract, t.transitions[i].field, t.transitions[i].seal,
           t.transitions[i].amount, t.transitions[i].tid) :
        i \in DOMAIN t.transitions}

TransferTids(b) == {Transfer(b).transitions[i].tid : i \in DOMAIN Transfer(b).transitions}

TransferInputs(b) ==
    UNION {Transfer(b).transitions[i].inputs : i \in DOMAIN Transfer(b).transitions}

----------------------------------------------------------------------------
(* Validation Engine (specification 4.2) *)

\* Structural errors make the consignment Invalid; an unconfirmed witness
\* transaction only raises a warning (Unresolved).
Validate(b, mined) ==
    IF Transfer(b).structErr THEN "Invalid"
    ELSE IF ~mined THEN "Unresolved"
    ELSE "Valid"

HasErrors(st) == st = "Invalid"
HasWarnings(st) == st = "Unresolved"

----------------------------------------------------------------------------
(* Stash (specification 4.3, 4.4, 4.5) *)

Res(ok, err, st) == [ok |-> ok, err |-> err, stock |-> st]

IsClosedNever(st, c, s) == FALSE

\* Whether seal s is marked closed in the history of contract c.
IsClosed(st, c, s) ==
    \E i \in DOMAIN st.closed : st.closed[i] = <<c, s>>

SetToSeq(S) ==
    LET RECURSIVE Build(_)
        Build(T) == IF T = {} THEN <<>>
                    ELSE LET x == CHOOSE y \in T : TRUE
                         IN <<x>> \o Build(T \ {x})
    IN Build(S)

\* One transition: record the new allocation, mark the consumed seals closed.
ApplyOne(st, c, t) ==
    [st EXCEPT !.known = @ \cup {t.tid},
               !.allocs = Append(@, Alloc(c, t.field, t.seal, t.amount, t.tid)),
               !.closed = @ \o SetToSeq({<<c, s>> : s \in t.inputs})]

RECURSIVE ApplyTransitions(_, _, _)
ApplyTransitions(st, c, ts) ==
    IF ts = <<>> THEN [ok |-> TRUE, stock |-> st]
    ELSE IF \E s \in Head(ts).inputs : IsClosed(st, c, s)
         THEN [ok |-> FALSE, stock |-> st]
         ELSE ApplyTransitions(ApplyOne(st, c, Head(ts)), c, Tail(ts))

ConsumeResultPartial(orig, r) ==
    IF r.ok THEN Res(TRUE, "", r.stock) ELSE Res(FALSE, "DoubleClosure", r.stock)

\* The apply is atomic: a failure leaves the stock as it was.
ConsumeResult(orig, r) ==
    IF r.ok THEN Res(TRUE, "", r.stock) ELSE Res(FALSE, "DoubleClosure", orig)

AlreadyKnownNever(st, b) == FALSE

\* Whether the transitions of b are already in the stash.
AlreadyKnown(st, b) == TransferTids(b) \subseteq st.known

StockAcceptTransferEager(st, b, vstatus, force) ==
    LET r == ConsumeResult(st, ApplyTransitions(st, Transfer(b).contract,
                                                Transfer(b).transitions))
    IN IF Transfer(b).contract \notin Ids(st.contracts) THEN Res(FALSE, "NotFound", st)
       ELSE IF AlreadyKnown(st, b) THEN Res(TRUE, "", st)
       ELSE IF HasErrors(vstatus) THEN Res(FALSE, "InvalidConsignment", r.stock)
       ELSE IF HasWarnings(vstatus) /\ ~force
            THEN Res(FALSE, "ValidationError", r.stock)
       ELSE r

\* Stock::accept_transfer
StockAcceptTransfer(st, b, vstatus, force) ==
    IF HasErrors(vstatus) THEN Res(FALSE, "InvalidConsignment", st)
    ELSE IF HasWarnings(vstatus) /\ ~force THEN Res(FALSE, "ValidationError", st)
    ELSE IF Transfer(b).contract \notin Ids(st.contracts) THEN Res(FALSE, "NotFound", st)
    ELSE IF AlreadyKnown(st, b) THEN Res(TRUE, "", st)
    ELSE ConsumeResult(st, ApplyTransitions(st, Transfer(b).contract,
                                            Transfer(b).transitions))

RegImportOverwrite(reg, id, content) ==
    [ok |-> TRUE, err |-> "", reg |-> {e \in reg : e[1] # id} \cup {<<id, content>>}]

\* import_schema / import_iface / import_iface_impl / import_contract on one
\* registry: additive only, Conflict on an id present with other content.
RegImport(reg, id, content) ==
    IF <<id, content>> \in reg THEN [ok |-> TRUE, err |-> "", reg |-> reg]
    ELSE IF id \in Ids(reg) THEN [ok |-> FALSE, err |-> "Conflict", reg |-> reg]
    ELSE [ok |-> TRUE, err |-> "", reg |-> reg \cup {<<id, content>>}]

\* The genesis a contract bundle carries: global state and first allocations.
Genesis(cid, content) ==
    [globals |-> {<<cid, "name", "Test">>, <<cid, "precision", "0">>},
     allocs |-> <<Alloc(cid, "assetOwner", "s1", 10, 0),
                  Alloc(cid, "inflationAllowance", "s6", 5, 0)>>]

StockImportContractReapply(st, id, content, g) ==
    LET r == RegImport(st.contracts, id, content)
    IN IF ~r.ok
       THEN Res(r.ok, r.err, st)
       ELSE Res(TRUE, "",
                [st EXCEPT !.contracts = r.reg,
                           !.globals = @ \cup g.globals,
                           !.allocs = @ \o g.allocs,
                           !.known = @ \cup {0}])

\* Stock::import_contract of a contract with genesis g.
StockImportContract(st, id, content, g) ==
    LET r == RegImport(st.contracts, id, content)
    IN IF ~r.ok \/ r.reg = st.contracts
       THEN Res(r.ok, r.err, st)
       ELSE Res(TRUE, "",
                [st EXCEPT !.contracts = r.reg,
                           !.globals = @ \cup g.globals,
                           !.allocs = @ \o g.allocs,
                           !.known = @ \cup {0}])

StockImport(st, kind, id, content) ==
    CASE kind = "schema" ->
            LET r == RegImport(st.schemata, id, content)
            IN Res(r.ok, r.err, [st EXCEPT !.schemata = r.reg])
      [] kind = "iface" ->
            LET r == RegImport(st.ifaces, id, content)
            IN Res(r.ok, r.err, [st EXCEPT !.ifaces = r.reg])
      [] kind = "iimpl" ->
            LET r == RegImport(st.iimpls, id, content)
            IN Res(r.ok, r.err, [st EXCEPT !.iimpls = r.reg])
      [] OTHER -> StockImportContract(st, id, content, Genesis(id, content))

\* A blinded (graph) seal over an outpoint, and the secret seal disclosed for it.
GraphSeal(outpoint, blinding) == [outpoint |-> outpoint, blinding |-> blinding]
ToSecretSeal(g) == <<"utxob", g.outpoint, g.blinding>>

\* Stock::store_seal_secret
StoreSealSecret(st, g) == [st EXCEPT !.secrets = @ \cup {g}]

----------------------------------------------------------------------------
(* Store files (stock.dat, one per network directory) *)

StockPathShared(n) == "testnet"

\* The store file of network n: <data_dir>/<chain>/stock.dat
StockPath(n) == n

File(st) == [state |-> "ok", stock |-> st]
AbsentFile == [state |-> "absent", stock |-> EmptyStock]
CorruptFile == [state |-> "corrupt", stock |-> EmptyStock]
PartialFile == [state |-> "partial", stock |-> EmptyStock]

StoreBeginInPlace(f, st) == PartialFile

\* Stock::store, first half: the serialized stock is written aside; the store
\* file itself is untouched until the write is complete.
StoreBegin(f, st) == f

\* Stock::store, second half: the store file is replaced in one step.
StoreEnd(f, st) == File(st)

DropRuntimeStoring(f, st) == File(st)

\* Drop for Runtime: the body is commented out, nothing is saved.
DropRuntime(f, st) == f

\* Stores a run may find: none, an unreadable one, and stocks that hold the
\* contract c1 with and without accepted transfers.
GenesisStock ==
    LET a == StockImport(EmptyStock, "schema", "sch", 1).stock
        b == StockImport(a, "iface", "RGB20", 1).stock
        c == StockImport(b, "iimpl", "impl", 1).stock
    IN StockImport(c, "contract", "c1", 1).stock

StockB1 == StockAcceptTransfer(GenesisStock, "B1", "Valid", FALSE).stock
StockB2 == StockAcceptTransfer(GenesisStock, "B2", "Valid", FALSE).stock

InitStores ==
    {AbsentFile, CorruptFile, File(GenesisStock), File(StockB1), File(StockB2)}

----------------------------------------------------------------------------
(* Subcommands and their arguments *)

NoOp ==
    [kind |-> "none", bundle |-> "B1", force |-> FALSE, armored |-> FALSE,
     bkind |-> "schema", id |-> "sch", content |-> 1, valid |-> TRUE,
     doc |-> "d1", contract |-> "c1", iface |-> "RGB20", value |-> 0,
     seal |-> <<>>, blinding |-> 0, address |-> "none", format |-> "yaml",
     tofile |-> TRUE, psbt |-> [txin |-> 0, inputs |-> <<>>]]

AcceptCmds ==
    {[NoOp EXCEPT !.kind = "Accept", !.bundle = b, !.force = f] :
        b \in Bundles, f \in BOOLEAN}

ValidateCmds == {[NoOp EXCEPT !.kind = "Validate", !.bundle = b] : b \in Bundles}

ImportCmds ==
    {[NoOp EXCEPT !.kind = "Import", !.bkind = k[1], !.id = k[2], !.content = c] :
        k \in {<<"schema", "sch">>, <<"iface", "RGB20">>, <<"iimpl", "impl">>},
        c \in {1, 2}}
    \cup {[NoOp EXCEPT !.kind = "Import", !.bkind = "contract", !.id = "c1",
                       !.content = c, !.valid = v] : c \in {1, 2}, v \in BOOLEAN}
    \cup {[NoOp EXCEPT !.kind = "Import", !.bkind = "transfer"],
          [NoOp EXCEPT !.kind = "Import", !.bkind = "unreadable"],
          [NoOp EXCEPT !.kind = "Import", !.armored = TRUE],
          [NoOp EXCEPT !.kind = "Import", !.armored = TRUE, !.bkind = "contract",
                       !.id = "c1"]}

\* The seal argument of invoice, as the parts seal.split(":") yields.
InvoiceSeals == {<<"aa", "0">>, <<"bb", "1">>, <<"aa">>, <<"zz", "0">>}

InvoiceCmds ==
    {[NoOp EXCEPT !.kind = "Invoice", !.seal = s, !.value = v] :
        s \in InvoiceSeals, v \in {7, 1000}}

StateCmds ==
    {[NoOp EXCEPT !.kind = "State", !.contract = c, !.iface = i, !.address = a] :
        c \in {"c1", "c2", "c9"}, i \in {"RGB20"}, a \in {"none", "addr"}}
    \cup {[NoOp EXCEPT !.kind = "State", !.iface = "Nope"]}

IssueDocs == {"d1", "d2", "d3", "d4", "d5", "d6", "d7", "d8", "d9"}

IssueCmds == {[NoOp EXCEPT !.kind = "Issue", !.doc = d] : d \in IssueDocs}

InspectFormats == {"yaml", "toml", "json", "debug", "contractum"}

InspectCmds == {[NoOp EXCEPT !.kind = "Inspect", !.format = f] : f \in InspectFormats}

ExportCmds ==
    {[NoOp EXCEPT !.kind = "Export", !.contract = c, !.armored = a, !.tofile = f] :
        c \in {"c1", "c9"}, a \in BOOLEAN, f \in BOOLEAN}

Commands ==
    AcceptCmds \cup ValidateCmds \cup ImportCmds \cup InvoiceCmds \cup StateCmds
    \cup IssueCmds \cup InspectCmds \cup ExportCmds

Mutating == {"Accept", "Import", "Issue", "Invoice"}

NoPrev ==
    [kind |-> "none", net |-> "testnet", bundle |-> "B1", force |-> FALSE,
     status |-> "none", outcome |-> "none", before |-> EmptyStock,
     stock |-> EmptyStock, doc |-> "d1", contract |-> "c1", armored |-> FALSE,
     seal |-> <<>>, blinding |-> 0]

NoOut ==
    [invoice |-> {}, allocs |-> {}, globals |-> {}, text |-> {}, file |-> <<>>,
     b64 |-> <<>>, printed |-> <<>>, utxo |-> {}, sent |-> {}]

----------------------------------------------------------------------------
(* issue: the contract document and the builder *)

\* Owned state types of the schema, by the field the implementation binds.
OwnedStateType(f) ==
    IF f \in {"assetOwner", "inflationAllowance"} THEN "Fungible" ELSE "Void"

GoodGlobals ==
    <<[name |-> "name", typeOk |-> TRUE, value |-> "Test"],
      [name |-> "precision", typeOk |-> TRUE, value |-> "0"]>>

GoodAssign ==
    [name |-> "assetOwner", seal |-> <<"aa", "0">>, hasAmount |-> TRUE,
     amount |-> 1000]

\* The YAML documents issue is run on: d1 is well formed; d2 names a global
\* the interface does not declare; d3 gives a global a value of the wrong
\* type; d4 assigns to a field of Void state; d5 leaves the globals out; d7
\* assigns two fields to the same output; d8 assigns two fields to two
\* outputs; d9 names an assignment the interface does not declare; d6 has no
\* interface key.
IssueDoc(d) ==
    CASE d = "d1" -> [iface |-> "RGB20", globals |-> GoodGlobals,
                      assigns |-> <<GoodAssign>>]
      [] d = "d2" -> [iface |-> "RGB20",
                      globals |-> <<[name |-> "bogus", typeOk |-> TRUE,
                                     value |-> "x"]>> \o GoodGlobals,
                      assigns |-> <<GoodAssign>>]
      [] d = "d3" -> [iface |-> "RGB20",
                      globals |-> <<[name |-> "name", typeOk |-> FALSE,
                                     value |-> "7"]>>,
                      assigns |-> <<GoodAssign>>]
      [] d = "d4" -> [iface |-> "RGB20", globals |-> GoodGlobals,
                      assigns |-> <<[GoodAssign EXCEPT !.name = "updateRight"]>>]
      [] d = "d5" -> [iface |-> "RGB20", globals |-> <<>>,
                      assigns |-> <<GoodAssign>>]
      [] d = "d7" -> [iface |-> "RGB20", globals |-> GoodGlobals,
                      assigns |-> <<GoodAssign,
                                    [GoodAssign EXCEPT
                                        !.name = "inflationAllowance"]>>]
      [] d = "d8" -> [iface |-> "RGB20", globals |-> GoodGlobals,
                      assigns |-> <<GoodAssign,
                                    [GoodAssign EXCEPT
                                        !.name = "inflationAllowance",
                                        !.seal = <<"bb", "1">>]>>]
      [] d = "d9" -> [iface |-> "RGB20", globals |-> GoodGlobals,
                      assigns |-> <<[GoodAssign EXCEPT !.name = "bogus"]>>]
      [] OTHER -> [iface |-> "", globals |-> GoodGlobals,
                   assigns |-> <<GoodAssign>>]

\* OutputSeal::from_str / Outpoint parsing of "txid:vout".
SealParses(parts) == Len(parts) = 2 /\ parts[1] \in {"aa", "bb"}

\* The outpoint "txid:vout" a parsed seal names.
OutpointOf(parts) == IF parts = <<"aa", "0">> THEN "aa:0" ELSE "bb:1"

\* What a run of issue ends with: how it ends, the error if any, the stock in
\* memory and the validation status of the issued contract ("none" when the
\* run did not get as far as validation).
IRes(o, e, st, v) == [outcome |-> o, err |-> e, stock |-> st, vstatus |-> v]

\* GenesisSeal::new_random on the output named in the document: a blinding
\* not used before in this run, here the count of the seals made so far.
NewRandomSeal(outpoint, made) == GraphSeal(outpoint, made + 1)

SealDuplicatesByValue(b, seal) ==
    \E i \in DOMAIN b.assigns : b.assigns[i].seal = seal

\* add_fungible_state: whether the seal names the ledger output of a seal the
\* builder already holds.
SealDuplicates(b, seal) ==
    \E i \in DOMAIN b.assigns : b.assigns[i].seal.outpoint = seal.outpoint

RECURSIVE AddGlobals(_, _)
AddGlobals(b, gs) ==
    IF gs = <<>> THEN [err |-> "", builder |-> b]
    ELSE IF Head(gs).name \notin IfaceGlobals
         THEN [err |-> "unknown type name", builder |-> b]
    ELSE IF ~Head(gs).typeOk
         THEN [err |-> "global type doesn't match type definition", builder |-> b]
    ELSE AddGlobals([b EXCEPT !.globals = @ \cup {<<Head(gs).name, Head(gs).value>>}],
                    Tail(gs))

RECURSIVE AddAssignments(_, _)
AddAssignments(b, as) ==
    IF as = <<>> THEN [err |-> "", builder |-> b]
    ELSE IF Head(as).name \notin Range(IfaceAssignments)
         THEN [err |-> "unknown type name", builder |-> b]
    ELSE IF ~SealParses(Head(as).seal)
         THEN [err |-> "invalid seal definition", builder |-> b]
    ELSE IF OwnedStateType(Head(as).name) # "Fungible"
         THEN [err |-> "not yet implemented", builder |-> b]
    ELSE IF ~Head(as).hasAmount
         THEN [err |-> "owned state must be a fungible amount", builder |-> b]
    ELSE LET seal == NewRandomSeal(OutpointOf(Head(as).seal), Len(b.assigns))
         IN IF SealDuplicates(b, seal)
            THEN [err |-> "DuplicateSeal", builder |-> b]
            ELSE AddAssignments(
                    [b EXCEPT !.assigns = Append(@, [field |-> Head(as).name,
                                                     seal |-> seal,
                                                     amount |-> Head(as).amount])],
                    Tail(as))

\* The genesis the builder issues for contract cid.
BuilderGenesis(cid, b) ==
    [globals |-> {<<cid, g[1], g[2]>> : g \in b.globals},
     allocs |-> [i \in DOMAIN b.assigns |->
                    Alloc(cid, b.assigns[i].field, b.assigns[i].seal.outpoint,
                          b.assigns[i].amount, 0)]]

\* builder.issue_contract(): succeeds when every mandatory field is populated.
IssueContract(b) == IfaceGlobals \subseteq {x[1] : x \in b.globals}

GenesisValidateStrict(g) == IF Len(g.allocs) > 1 THEN "Invalid" ELSE "Valid"

\* contract.validate(resolver, true) on an issued genesis: the structural
\* phase; a genesis has no witness transaction to resolve.
GenesisValidate(g) ==
    IF \E i, j \in DOMAIN g.allocs : i # j /\ g.allocs[i].seal = g.allocs[j].seal
    THEN "Invalid"
    ELSE "Valid"

\* The issue handler from the document to the import of the issued contract.
IssueRun(st, schema, d) ==
    LET doc == IssueDoc(d)
        g == AddGlobals([globals |-> {}, assigns |-> <<>>], doc.globals)
        a == AddAssignments(g.builder, doc.assigns)
        gen == BuilderGenesis("c2", a.builder)
        v == GenesisValidate(gen)
        r == StockImportContract(st, "c2", 1, gen)
    IN IF doc.iface = ""
       THEN IRes("panic", "contract must specify interface", st, "none")
       ELSE IF schema \notin Ids(st.schemata) THEN IRes("err", "Stash", st, "none")
       ELSE IF doc.iface \notin Ids(st.ifaces)
            THEN IRes("panic", "get iface failed", st, "none")
       ELSE IF st.iimpls = {} THEN IRes("panic", "get iface impl failed", st, "none")
       ELSE IF g.err # "" THEN IRes("panic", g.err, st, "none")
       ELSE IF a.err # "" THEN IRes("panic", a.err, st, "none")
       ELSE IF ~IssueContract(a.builder)
            THEN IRes("panic", "IncompleteContract", st, "none")
       ELSE IF v # "Valid" THEN IRes("panic", "IncompleteContract", st, v)
       ELSE IF ~r.ok THEN IRes("panic", r.err, st, v)
       ELSE IRes("ok", "", r.stock, v)

----------------------------------------------------------------------------
(* One invocation of the command line: handle_rgb_subcommand *)

Init ==
    /\ disk \in [Networks -> InitStores]
    /\ disk["bitcoin"] = AbsentFile
    /\ pc = "idle"
    /\ net = "testnet"
    /\ op = NoOp
    /\ stock = EmptyStock
    /\ loaded = [ok |-> FALSE, stock |-> EmptyStock]
    /\ disk0 = AbsentFile
    /\ status = "none"
    /\ cstate = "None"
    /\ outcome = "none"
    /\ errKind = ""
    /\ out = NoOut
    /\ prev = NoPrev

\* The handler returns (Ok or Err) or panics; the runtime is dropped.
Finish(o, e) ==
    /\ outcome' = o
    /\ errKind' = e
    /\ pc' = "done"
    /\ disk' = [disk EXCEPT ![StockPath(net)] = DropRuntime(@, stock')]

\* An error before the runtime exists: Resolver::new or Runtime::load failed.
FinishEarly(o, e) ==
    /\ outcome' = o
    /\ errKind' = e
    /\ pc' = "done"
    /\ UNCHANGED disk

\* A command line is entered for network n.
Start(n, c) ==
    /\ pc = "idle"
    /\ pc' = "start"
    /\ net' = n
    /\ op' = c
    /\ disk0' = disk[n]
    /\ UNCHANGED <<disk, stock, loaded, status, cstate, outcome, errKind, out, prev>>

\* Resolver::new(electrum)?
NewResolver ==
    /\ pc = "start"
    /\ \E ok \in BOOLEAN :
        IF ok
        THEN /\ pc' = "resolved"
             /\ UNCHANGED <<disk, outcome, errKind>>
        ELSE FinishEarly("err", "Electrum")
    /\ UNCHANGED <<net, op, stock, loaded, disk0, status, cstate, out, prev>>

LoadResultDefault(f) ==
    IF f.state = "ok" THEN [ok |-> TRUE, create |-> FALSE, stock |-> f.stock]
    ELSE [ok |-> TRUE, create |-> TRUE, stock |-> EmptyStock]

\* Runtime::load on the store file f: a default stock to create when there is
\* no file, the deserialized stock, or the deserialization error.
LoadResult(f) ==
    IF f.state = "absent" THEN [ok |-> TRUE, create |-> TRUE, stock |-> EmptyStock]
    ELSE IF f.state = "ok" THEN [ok |-> TRUE, create |-> FALSE, stock |-> f.stock]
    ELSE [ok |-> FALSE, create |-> FALSE, stock |-> EmptyStock]

\* Runtime::load, up to the start of stock.store for a new store file.
Load ==
    /\ pc = "resolved"
    /\ LET r == LoadResult(disk[StockPath(net)]) IN
        IF ~r.ok
        THEN /\ UNCHANGED <<stock, loaded>>
             /\ FinishEarly("err", "Deserialize")
        ELSE IF r.create
        THEN /\ stock' = r.stock
             /\ disk' = [disk EXCEPT ![StockPath(net)] = StoreBegin(@, r.stock)]
             /\ pc' = "storing"
             /\ UNCHANGED <<loaded, outcome, errKind>>
        ELSE /\ stock' = r.stock
             /\ loaded' = [ok |-> TRUE, stock |-> r.stock]
             /\ pc' = "loaded"
             /\ UNCHANGED <<disk, outcome, errKind>>
    /\ UNCHANGED <<net, op, disk0, status, cstate, out, prev>>

\* Runtime::load, the end of stock.store for a new store file.
LoadStored ==
    /\ pc = "storing"
    /\ disk' = [disk EXCEPT ![StockPath(net)] = StoreEnd(@, stock)]
    /\ loaded' = [ok |-> TRUE, stock |-> stock]
    /\ pc' = "loaded"
    /\ UNCHANGED <<net, op, stock, disk0, status, cstate, outcome, errKind, out, prev>>

\* accept: Bindle::load_file and unbindle.
AcceptReceive ==
    /\ pc = "loaded" /\ op.kind = "Accept"
    /\ \E readable \in BOOLEAN :
        IF readable
        THEN /\ cstate' = "Received"
             /\ pc' = "received"
             /\ UNCHANGED <<disk, outcome, errKind>>
        ELSE /\ UNCHANGED <<stock, cstate>>
             /\ Finish("err", "Load")
    /\ UNCHANGED <<net, op, stock, loaded, disk0, status, out, prev>>

\* accept: consignment.validate(..).unwrap_or_else(|c| c); the status is printed.
AcceptValidate ==
    /\ pc = "received"
    /\ \E mined \in BOOLEAN : status' = Validate(op.bundle, mined)
    /\ cstate' = "Validating"
    /\ pc' = "validated"
    /\ UNCHANGED <<disk, net, op, stock, loaded, disk0, outcome, errKind, out, prev>>

\* accept: runtime.accept_transfer(transfer, resolver, force).unwrap()
AcceptTransfer ==
    /\ pc = "validated"
    /\ LET r == StockAcceptTransfer(stock, op.bundle, status, op.force) IN
        IF r.ok
        THEN /\ stock' = r.stock
             /\ cstate' = "Accepted"
             /\ pc' = "mutated"
             /\ UNCHANGED <<disk, outcome, errKind>>
        ELSE /\ stock' = r.stock
             /\ cstate' = "Rejected"
             /\ Finish("panic", r.err)
    /\ UNCHANGED <<net, op, loaded, disk0, status, out, prev>>

ValidateOutcomeByStatus(vstatus) == IF HasErrors(vstatus) THEN "err" ELSE "ok"

\* validate: what the handler returns once the status is printed.
ValidateOutcome(vstatus) == "ok"

\* validate: the status is printed and Ok returned whatever it is.
ValidateCmd ==
    /\ pc = "loaded" /\ op.kind = "Validate"
    /\ \E readable, mined \in BOOLEAN :
        IF readable
        THEN /\ status' = Validate(op.bundle, mined)
             /\ out' = [out EXCEPT !.text = {Validate(op.bundle, mined)}]
             /\ UNCHANGED stock
             /\ Finish(ValidateOutcome(Validate(op.bundle, mined)), "")
        ELSE /\ UNCHANGED <<status, out, stock>>
             /\ Finish("err", "Load")
    /\ UNCHANGED <<net, op, loaded, disk0, cstate, prev>>

ImportValidateAlways(o) == "Valid"

\* import of a contract bundle: bindle.unbindle().validate(resolver, true)
ImportValidate(o) == IF o.valid THEN "Valid" ELSE "Invalid"

\* import
ImportCmd ==
    /\ pc = "loaded" /\ op.kind = "Import"
    /\ IF op.armored \/ op.bkind = "transfer"
       THEN /\ UNCHANGED stock
            /\ Finish("panic", "not yet implemented")
       ELSE IF op.bkind = "unreadable"
       THEN /\ UNCHANGED stock
            /\ Finish("err", "Load")
       ELSE IF op.bkind = "contract" /\ ImportValidate(op) # "Valid"
       THEN /\ UNCHANGED stock
            /\ Finish("err", "InvalidConsignment")
       ELSE LET r == StockImport(stock, op.bkind, op.id, op.content) IN
            IF r.ok
            THEN /\ stock' = r.stock
                 /\ pc' = "mutated"
                 /\ UNCHANGED <<disk, outcome, errKind>>
            ELSE /\ stock' = r.stock
                 /\ Finish("err", r.err)
    /\ UNCHANGED <<net, op, loaded, disk0, status, cstate, out, prev>>

\* issue
IssueCmd ==
    /\ pc = "loaded" /\ op.kind = "Issue"
    /\ LET r == IssueRun(stock, op.id, op.doc) IN
        /\ stock' = r.stock
        /\ status' = r.vstatus
        /\ IF r.outcome = "ok"
           THEN /\ pc' = "mutated"
                /\ UNCHANGED <<disk, outcome, errKind>>
           ELSE Finish(r.outcome, r.err)
    /\ UNCHANGED <<net, op, loaded, disk0, cstate, out, prev>>

Blindings == {1, 2}

\* invoice: the seal is parsed and blinded and its secret is handed to the stock.
InvoiceStoreSecret ==
    /\ pc = "loaded" /\ op.kind = "Invoice"
    /\ IF ~SealParses(op.seal)
       THEN /\ UNCHANGED <<stock, op>>
            /\ Finish("panic", "unwrap")
       ELSE \E bl \in Blindings :
            /\ op' = [op EXCEPT !.blinding = bl]
            /\ stock' = StoreSealSecret(stock, GraphSeal(OutpointOf(op.seal), bl))
            /\ pc' = "secret_stored"
            /\ UNCHANGED <<disk, outcome, errKind>>
    /\ UNCHANGED <<net, loaded, disk0, status, cstate, out, prev>>

\* The invoice string: contract, interface, amount and beneficiary.
BuildInvoice(c, i, v, g) ==
    [contract |-> c, iface |-> i, amount |-> v, beneficiary |-> ToSecretSeal(g)]

DigitChars == <<"0", "1", "2", "3", "4", "5", "6", "7", "8", "9">>

RECURSIVE DigitsReversed(_)
DigitsReversed(n) ==
    IF n < 10 THEN <<DigitChars[n + 1]>>
    ELSE <<DigitChars[(n % 10) + 1]>> \o DigitsReversed(n \div 10)

\* The decimal digits of n, the most significant first.
RECURSIVE Digits(_)
Digits(n) ==
    IF n < 10 THEN <<DigitChars[n + 1]>>
    ELSE Digits(n \div 10) \o <<DigitChars[(n % 10) + 1]>>

\* The number a sequence of decimal digits writes.
RECURSIVE Number(_)
Number(ds) ==
    IF ds = <<>> THEN 0
    ELSE 10 * Number(SubSeq(ds, 1, Len(ds) - 1))
            + (CHOOSE d \in 0..9 : DigitChars[d + 1] = ds[Len(ds)])

\* The invoice as the string that is printed, piece by piece: the contract,
\* the interface, the amount, and the beneficiary on the test network.
FormatInvoice(inv) ==
    <<"rgb:", inv.contract, "/", inv.iface, "/">> \o Digits(inv.amount)
    \o <<"+", "tb:", inv.beneficiary[1], ":", inv.beneficiary[2], "#">>
    \o Digits(inv.beneficiary[3])

\* The invoice read back from its string.
ParseInvoice(str) ==
    LET plus == CHOOSE i \in DOMAIN str : str[i] = "+"
        hash == CHOOSE i \in DOMAIN str : str[i] = "#"
    IN [contract |-> str[2],
        iface |-> str[4],
        amount |-> Number(SubSeq(str, 6, plus - 1)),
        beneficiary |-> <<str[plus + 2], str[plus + 4],
                          Number(SubSeq(str, hash + 1, Len(str)))>>]

\* invoice: println!("{invoice}")
InvoicePrint ==
    /\ pc = "secret_stored"
    /\ out' = [out EXCEPT
                !.invoice =
                    {BuildInvoice(op.contract, op.iface, op.value,
                                  GraphSeal(OutpointOf(op.seal), op.blinding))},
                !.printed =
                    FormatInvoice(
                        BuildInvoice(op.contract, op.iface, op.value,
                                     GraphSeal(OutpointOf(op.seal), op.blinding)))]
    /\ pc' = "mutated"
    /\ UNCHANGED <<disk, net, op, stock, loaded, disk0, status, cstate, outcome, errKind, prev>>

ContractAllocs(st, c) == {a \in Range(st.allocs) : a.contract = c}

\* state: what is printed under Owned, given the unspent outputs of the
\* address when one is given.
OwnedShown(st, c, filtered, utxo) ==
    IF filtered
    THEN {a \in ContractAllocs(st, c) :
            a.field = IfaceAssignments[1] /\ a.seal \in utxo}
    ELSE {a \in ContractAllocs(st, c) : OwnedStateType(a.field) = "Fungible"}

\* state
StateCmd ==
    /\ pc = "loaded" /\ op.kind = "State"
    /\ IF op.iface \notin Ids(stock.ifaces) \/ op.contract \notin Ids(stock.contracts)
       THEN /\ UNCHANGED out
            /\ Finish("err", "Stash")
       ELSE \E utxo \in SUBSET {"s1", "s2", "s6"}, listed \in BOOLEAN :
            IF op.address # "none" /\ ~listed
            THEN /\ out' = [out EXCEPT
                        !.globals = {g \in stock.globals : g[1] = op.contract}]
                 /\ Finish("panic", "Electrum")
            ELSE /\ out' = [out EXCEPT
                        !.globals = {g \in stock.globals : g[1] = op.contract},
                        !.allocs = OwnedShown(stock, op.contract,
                                              op.address # "none", utxo),
                        !.utxo = IF op.address # "none" THEN utxo ELSE {}]
                 /\ Finish("ok", "")
    /\ UNCHANGED <<net, op, stock, loaded, disk0, status, cstate, prev>>

----------------------------------------------------------------------------
(* export: the armored text file *)

LineWidth == 64

\* The largest serialized bundle, in bytes, an export is run on.
MaxBytes == 97

\* base64::encode of n bytes: four characters for every three bytes, padded.
\* A character is written as its position in the encoding.
Base64Len(n) == 4 * ((n + 2) \div 3)
Base64(n) == [i \in 1..Base64Len(n) |-> i]

RECURSIVE WrapLinesDropRest(_)
WrapLinesDropRest(s) ==
    IF Len(s) >= LineWidth
    THEN <<SubSeq(s, 1, LineWidth)>>
            \o WrapLinesDropRest(SubSeq(s, LineWidth + 1, Len(s)))
    ELSE <<>>

\* The lines of the body: while 64 characters or more are left a line of 64
\* is written, then what is left is written as a line, empty or not.
RECURSIVE WrapLines(_)
WrapLines(s) ==
    IF Len(s) >= LineWidth
    THEN <<SubSeq(s, 1, LineWidth)>> \o WrapLines(SubSeq(s, LineWidth + 1, Len(s)))
    ELSE <<s>>

\* A line of the file: a marker or header line, or a line of characters.
Line(mark, chars) == [mark |-> mark, chars |-> chars]
BlankLine == Line("", <<>>)

\* The armored file of a bundle whose encoding is b64: the plate title, the
\* Id header, the optional Mnemonic header, an empty line, the body, and an
\* empty line before the closing plate.
ArmoredFile(hasMnemonic, b64) ==
    <<Line("-----BEGIN RGB CONTRACT-----", <<>>), Line("Id:", <<>>)>>
    \o (IF hasMnemonic THEN <<Line("Mnemonic:", <<>>)>> ELSE <<>>)
    \o <<BlankLine>>
    \o [i \in DOMAIN WrapLines(b64) |-> Line("", WrapLines(b64)[i])]
    \o <<BlankLine, Line("-----END RGB CONTRACT-----", <<>>)>>

\* export
ExportCmd ==
    /\ pc = "loaded" /\ op.kind = "Export"
    /\ IF op.contract \notin Ids(stock.contracts)
       THEN /\ UNCHANGED <<out, stock>>
            /\ Finish("err", "Stash")
       ELSE IF ~op.tofile
       THEN /\ out' = [out EXCEPT !.text = {"bindle"}]
            /\ UNCHANGED stock
            /\ Finish("ok", "")
       ELSE \E created \in BOOLEAN, hasMnemonic \in BOOLEAN, n \in 0..MaxBytes :
            IF ~created
            THEN /\ UNCHANGED <<out, stock>>
                 /\ Finish("err", "Io")
            ELSE IF op.armored
            THEN /\ out' = [out EXCEPT !.file = ArmoredFile(hasMnemonic, Base64(n)),
                                       !.b64 = Base64(n)]
                 /\ UNCHANGED stock
                 /\ Finish("ok", "")
            ELSE /\ out' = [out EXCEPT !.text = {"binary"}]
                 /\ UNCHANGED stock
                 /\ Finish("ok", "")
    /\ UNCHANGED <<net, op, loaded, disk0, status, cstate, prev>>

----------------------------------------------------------------------------

\* inspect: the file is loaded and printed in the format asked for; the
\* serializers may fail on a bundle, the debug format does not.
InspectCmd ==
    /\ pc = "loaded" /\ op.kind = "Inspect"
    /\ \E readable, presentable \in BOOLEAN :
        IF ~readable
        THEN /\ UNCHANGED <<out, stock>>
             /\ Finish("err", "Load")
        ELSE IF op.format = "contractum"
        THEN /\ UNCHANGED <<out, stock>>
             /\ Finish("panic", "not yet implemented")
        ELSE IF op.format # "debug" /\ ~presentable
        THEN /\ UNCHANGED <<out, stock>>
             /\ Finish("panic", "unable to present")
        ELSE /\ out' = [out EXCEPT !.text = {op.format}]
             /\ UNCHANGED stock
             /\ Finish("ok", "")
    /\ UNCHANGED <<net, op, loaded, disk0, status, cstate, prev>>

\* Ok(JsonNull) of a handler that changed the stock in memory.
Return ==
    /\ pc = "mutated"
    /\ UNCHANGED stock
    /\ Finish("ok", "")
    /\ UNCHANGED <<net, op, loaded, disk0, status, cstate, out, prev>>

\* The process dies where it stands; what it held in memory is gone.
Crash ==
    /\ pc \notin {"idle", "done"}
    /\ outcome' = "crash"
    /\ errKind' = ""
    /\ pc' = "done"
    /\ UNCHANGED <<disk, net, op, stock, loaded, disk0, status, cstate, out, prev>>

\* The process is gone; the next command line starts from the store files.
Exit ==
    /\ pc = "done"
    /\ pc' = "idle"
    /\ prev' = IF op.kind \in {"Accept", "Issue", "Export", "Invoice"} /\ loaded.ok
               THEN [kind |-> op.kind, net |-> net, bundle |-> op.bundle,
                     force |-> op.force, status |-> status, outcome |-> outcome,
                     before |-> loaded.stock, stock |-> stock, doc |-> op.doc,
                     contract |-> op.contract, armored |-> op.armored /\ op.tofile,
                     seal |-> op.seal, blinding |-> op.blinding]
               ELSE NoPrev
    /\ net' = "testnet"
    /\ op' = NoOp
    /\ stock' = EmptyStock
    /\ loaded' = [ok |-> FALSE, stock |-> EmptyStock]
    /\ disk0' = AbsentFile
    /\ status' = "none"
    /\ cstate' = "None"
    /\ outcome' = "none"
    /\ errKind' = ""
    /\ out' = NoOut
    /\ UNCHANGED disk

Next ==
    \/ \E n \in Networks, c \in Commands : Start(n, c)
    \/ NewResolver
    \/ Load
    \/ LoadStored
    \/ AcceptReceive
    \/ AcceptValidate
    \/ AcceptTransfer
    \/ ValidateCmd
    \/ ImportCmd
    \/ IssueCmd
    \/ InvoiceStoreSecret
    \/ InvoicePrint
    \/ StateCmd
    \/ InspectCmd
    \/ ExportCmd
    \/ Return
    \/ Crash
    \/ Exit

Spec == Init /\ [][Next]_vars

----------------------------------------------------------------------------
(* The online wallet: broadcast *)

\* The largest number of inputs of a PSBT a broadcast is run on.
MaxInputs == 2

\* A PSBT input: whether it has a final script signature, a final script witness.
PsbtInputs == [sig : BOOLEAN, wit : BOOLEAN]

\* The PSBT files: the number of inputs of the unsigned transaction and the
\* inputs of the PSBT.
Psbts ==
    {[txin |-> u, inputs |-> i] :
        u \in 0..MaxInputs,
        i \in UNION {[1..k -> PsbtInputs] : k \in 0..MaxInputs}}

BroadcastCmds == {[NoOp EXCEPT !.kind = "Broadcast", !.psbt = p] : p \in Psbts}

IsFinalBoth(psbt) ==
    LET sig_count == Cardinality({i \in DOMAIN psbt.inputs :
                                    psbt.inputs[i].sig /\ psbt.inputs[i].wit})
    IN IF psbt.txin # Len(psbt.inputs) THEN "Malformed"
       ELSE IF psbt.txin > sig_count THEN "NotFinal"
       ELSE "Ok"

\* is_final: an error when the input counts differ or when fewer inputs carry
\* a final script signature or witness than the unsigned transaction has.
IsFinal(psbt) ==
    LET sig_count == Cardinality({i \in DOMAIN psbt.inputs :
                                    psbt.inputs[i].sig \/ psbt.inputs[i].wit})
    IN IF psbt.txin # Len(psbt.inputs) THEN "Malformed"
       ELSE IF psbt.txin > sig_count THEN "NotFinal"
       ELSE "Ok"

\* wallet broadcast: the PSBT is read, checked by is_final, and its
\* transaction is handed to the blockchain backend.
BroadcastCmd ==
    /\ pc = "start" /\ op.kind = "Broadcast"
    /\ \E readable, accepted \in BOOLEAN :
        IF ~readable
        THEN /\ UNCHANGED out
             /\ FinishEarly("err", "Io")
        ELSE IF IsFinal(op.psbt) # "Ok"
        THEN /\ UNCHANGED out
             /\ FinishEarly("err", IsFinal(op.psbt))
        ELSE IF ~accepted
        THEN /\ UNCHANGED out
             /\ FinishEarly("err", "Broadcast")
        ELSE /\ out' = [out EXCEPT !.sent = {op.psbt}]
             /\ FinishEarly("ok", "")
    /\ UNCHANGED <<net, op, stock, loaded, disk0, status, cstate, prev>>

NextWallet ==
    \/ \E n \in Networks, c \in BroadcastCmds : Start(n, c)
    \/ BroadcastCmd
    \/ Exit

SpecWallet == Init /\ [][NextWallet]_vars

----------------------------------------------------------------------------
(* Properties *)

Reg(st, kind) ==
    CASE kind = "schema" -> st.schemata
      [] kind = "iface" -> st.ifaces
      [] kind = "iimpl" -> st.iimpls
      [] OTHER -> st.contracts

\* The accept handler got as far as the call of accept_transfer and was not
\* killed on the way.
AcceptDecided == op.kind = "Accept" /\ cstate \in {"Accepted", "Rejected"}

\* C1: an accept of a consignment whose validation status holds an Error,
\* forced or not, ends in Rejected, returns the status as an error value and
\* leaves the stash in memory and the store file as they were.
C1_ErrorsRejectedAsErrorValue ==
    (pc = "done" /\ op.kind = "Accept" /\ HasErrors(status) /\ outcome # "crash")
        => /\ cstate = "Rejected"
           /\ outcome = "err"
           /\ errKind = "InvalidConsignment"
           /\ stock = loaded.stock
           /\ disk[net] = File(loaded.stock)

\* C2: when a mutating operation has reported success, the store file holds
\* the updated stock.
C2_PersistedBeforeSuccess ==
    (pc = "done" /\ outcome = "ok" /\ op.kind \in Mutating)
        => disk[net] = File(stock)

\* C3: whenever an invoice has been printed, the secret of its blinded seal
\* is in the store file.
C3_SecretAtRestBeforeDisclosure ==
    \A inv \in out.invoice :
        /\ disk[net].state = "ok"
        /\ \E g \in disk[net].stock.secrets : ToSecretSeal(g) = inv.beneficiary

\* C4: accepting a bundle whose transitions are already in the stash, or
\* accepting a bundle a second time in a row, succeeds again without error,
\* leaves the stash as the first accept left it and duplicates no allocation.
C4_AcceptIdempotent ==
    /\ NoDup(stock.allocs)
    /\ (AcceptDecided /\ ~HasErrors(status) /\ ~(HasWarnings(status) /\ ~op.force)
            /\ TransferTids(op.bundle) \subseteq loaded.stock.known)
        => (cstate = "Accepted" /\ stock = loaded.stock)
    /\ (AcceptDecided /\ prev.kind = "Accept" /\ prev.outcome = "ok"
            /\ prev.net = net /\ prev.bundle = op.bundle /\ prev.force = op.force
            /\ prev.status = status)
        => (cstate = "Accepted" /\ stock = prev.stock)

C4_Witness ==
    /\ AcceptDecided /\ cstate = "Accepted" /\ pc = "done" /\ outcome = "ok"
    /\ prev.kind = "Accept" /\ prev.outcome = "ok" /\ prev.net = net
    /\ prev.bundle = op.bundle /\ prev.force = op.force
    /\ TransferTids(op.bundle) \subseteq loaded.stock.known
    /\ stock = prev.stock

\* C5: with an unconfirmed witness as the only finding, accept without force
\* fails and adds no allocation; accept with force succeeds and a state query
\* that follows on that contract reports the transfer's allocations.
C5_ForcedAcceptVisibleInState ==
    /\ (pc = "done" /\ op.kind = "Accept" /\ HasWarnings(status) /\ ~op.force
            /\ outcome # "crash")
        => (outcome \in {"err", "panic"} /\ errKind = "ValidationError"
            /\ stock.allocs = loaded.stock.allocs)
    /\ (pc = "done" /\ op.kind = "Accept" /\ HasWarnings(status) /\ op.force
            /\ outcome # "crash"
            /\ Transfer(op.bundle).contract \in Ids(loaded.stock.contracts)
            /\ \A s \in TransferInputs(op.bundle) :
                    <<Transfer(op.bundle).contract, s>> \notin Range(loaded.stock.closed))
        => outcome = "ok"
    /\ (pc = "done" /\ op.kind = "State" /\ outcome = "ok" /\ op.address = "none"
            /\ prev.kind = "Accept" /\ prev.outcome = "ok" /\ prev.force
            /\ HasWarnings(prev.status) /\ prev.net = net
            /\ op.contract = Transfer(prev.bundle).contract)
        => TransferAllocs(prev.bundle) \subseteq out.allocs

\* C6: no seal is marked closed twice in a contract's history, in memory or
\* in a store file, and an accept that consumes a seal already closed is
\* rejected with DoubleClosure and records no allocation.
C6_NoDoubleClosure ==
    /\ NoDup(stock.closed)
    /\ \A n \in Networks : NoDup(disk[n].stock.closed)
    /\ (AcceptDecided /\ ~HasErrors(status) /\ ~(HasWarnings(status) /\ ~op.force)
            /\ ~(TransferTids(op.bundle) \subseteq loaded.stock.known)
            /\ \E s \in TransferInputs(op.bundle) :
                    <<Transfer(op.bundle).contract, s>> \in Range(loaded.stock.closed))
        => /\ cstate = "Rejected"
           /\ errKind = "DoubleClosure"
           /\ outcome # "ok"
           /\ stock.allocs = loaded.stock.allocs

C6_Witness ==
    /\ AcceptDecided /\ cstate = "Rejected" /\ errKind = "DoubleClosure"
    /\ \E s \in TransferInputs(op.bundle) :
            <<Transfer(op.bundle).contract, s>> \in Range(loaded.stock.closed)

\* All of the transitions of bundle b are recorded in st.
Applied(st, b) ==
    /\ TransferTids(b) \subseteq st.known
    /\ TransferAllocs(b) \subseteq Range(st.allocs)
    /\ \A s \in TransferInputs(b) : <<Transfer(b).contract, s>> \in Range(st.closed)

\* None of the transitions of bundle b is recorded in st.
NotApplied(st, b) ==
    /\ TransferTids(b) \cap st.known = {}
    /\ TransferAllocs(b) \cap Range(st.allocs) = {}

\* C7: in every state, a failed accept included, the stash in memory and
\* every store file hold all transitions of a consignment or none of them.
C7_AtomicApply ==
    \A b \in Bundles :
        /\ Applied(stock, b) \/ NotApplied(stock, b)
        /\ \A n \in Networks : Applied(disk[n].stock, b) \/ NotApplied(disk[n].stock, b)

C7_Witness ==
    /\ AcceptDecided /\ cstate = "Rejected" /\ errKind = "DoubleClosure"
    /\ Len(Transfer(op.bundle).transitions) > 1
    /\ \A s \in Transfer(op.bundle).transitions[1].inputs :
            <<Transfer(op.bundle).contract, s>> \notin Range(loaded.stock.closed)
    /\ NotApplied(stock, op.bundle)

C9_Load ==
    /\ loaded.ok =>
        /\ disk0.state \in {"absent", "ok"}
        /\ disk0.state = "absent"
            => (loaded.stock = EmptyStock /\ disk[net] = File(EmptyStock))
        /\ disk0.state = "ok" => (loaded.stock = disk0.stock /\ disk[net] = disk0)
    /\ (pc # "idle" /\ disk0.state \notin {"absent", "ok"}) =>
        /\ ~loaded.ok
        /\ disk[net] = disk0
        /\ pc \in {"start", "resolved", "done"}
        /\ (pc = "done" /\ outcome # "crash" /\ errKind # "Electrum")
            => (outcome = "err" /\ errKind = "Deserialize")

C9_Witness ==
    pc = "done" /\ disk0 = CorruptFile /\ outcome = "err" /\ errKind = "Deserialize"
    /\ disk[net] = CorruptFile

\* The import handler got as far as the import call on a bundle whose id is
\* in the stash with other content.
ImportConflicting ==
    /\ op.kind = "Import" /\ ~op.armored
    /\ op.bkind \in {"schema", "iface", "iimpl", "contract"}
    /\ (op.bkind = "contract" => op.valid)
    /\ loaded.ok
    /\ op.id \in Ids(Reg(loaded.stock, op.bkind))
    /\ <<op.id, op.content>> \notin Reg(loaded.stock, op.bkind)

\* C10: an import of an id that is in the stash with other content fails with
\* Conflict, and what is stored under the id stays as it was.
C10_ImportConflict ==
    /\ (ImportConflicting /\ pc \notin {"loaded"} /\ outcome # "crash")
        => /\ pc = "done"
           /\ outcome = "err"
           /\ errKind = "Conflict"
           /\ stock = loaded.stock
    /\ ImportConflicting => disk[net] = File(loaded.stock)

C10_Witness ==
    ImportConflicting /\ pc = "done" /\ outcome = "err" /\ errKind = "Conflict"

\* The import handler got as far as the import call on a bundle that is in
\* the stash with the same content.
ImportIdentical ==
    /\ op.kind = "Import" /\ ~op.armored
    /\ op.bkind \in {"schema", "iface", "iimpl", "contract"}
    /\ (op.bkind = "contract" => op.valid)
    /\ loaded.ok
    /\ <<op.id, op.content>> \in Reg(loaded.stock, op.bkind)

\* C11: an import of a schema, interface, implementation or contract that is
\* in the stash with the same content succeeds and changes nothing: the
\* stash in memory and the store file are what they were before the import.
C11_ReimportNoOp ==
    ImportIdentical
        => /\ stock = loaded.stock
           /\ disk[net] = File(loaded.stock)
           /\ disk[net] = disk0
           /\ (pc = "done" /\ outcome # "crash") => outcome = "ok"

C11_Witness ==
    ImportIdentical /\ op.bkind = "contract" /\ pc = "done" /\ outcome = "ok"
    /\ Len(stock.allocs) > 0

IsPrefix(s, t) == Len(s) <= Len(t) /\ \A i \in DOMAIN s : s[i] = t[i]

\* Everything recorded in the stash a is recorded, unchanged, in the stash b.
Grows(a, b) ==
    /\ a.schemata \subseteq b.schemata
    /\ a.ifaces \subseteq b.ifaces
    /\ a.iimpls \subseteq b.iimpls
    /\ a.contracts \subseteq b.contracts
    /\ a.globals \subseteq b.globals
    /\ a.known \subseteq b.known
    /\ IsPrefix(a.allocs, b.allocs)
    /\ IsPrefix(a.closed, b.closed)

\* C12: the stash only grows: within one invocation the stash in memory
\* keeps, unchanged, everything it was loaded with, and the stash the next
\* invocation on the same store loads keeps, unchanged, everything the stash
\* held when the invocation before it reported success.
C12_StashOnlyGrows ==
    /\ loaded.ok => Grows(loaded.stock, stock)
    /\ (loaded.ok /\ prev.kind = "Accept" /\ prev.outcome = "ok" /\ prev.net = net)
        => Grows(prev.stock, loaded.stock)

ConsignmentStep ==
    /\ (cstate' = "Received" /\ cstate # "Received") => cstate = "None"
    /\ (cstate' = "Validating" /\ cstate # "Validating") => cstate = "Received"
    /\ (cstate' \in {"Accepted", "Rejected"} /\ cstate' # cstate)
        => cstate = "Validating"
    /\ cstate \in {"Accepted", "Rejected"} => (cstate' = cstate \/ pc' = "idle")
    /\ (op.kind = "Accept" /\ loaded.ok /\ pc' # "idle" /\ stock' # stock)
        => (cstate = "Validating" /\ cstate' = "Accepted")
    /\ (op.kind = "Accept" /\ loaded.ok) => disk' = disk

\* C14: a consignment goes Received -> Validating -> {Accepted | Rejected}: it
\* is Accepted or Rejected only from Validating, an accept request that ran
\* to its end on a readable consignment ends in one of the two, neither is
\* left again within the request, and the stash changes only on the step into
\* Accepted.
C14_ConsignmentStateMachine ==
    /\ []((pc = "done" /\ op.kind = "Accept" /\ outcome # "crash"
                /\ cstate # "None")
            => cstate \in {"Accepted", "Rejected"})
    /\ []((op.kind = "Accept" /\ loaded.ok /\ cstate # "Accepted")
            => stock = loaded.stock)
    /\ [][ConsignmentStep]_vars

C14_Witness ==
    /\ op.kind = "Accept" /\ pc = "done" /\ outcome = "ok"
    /\ cstate = "Accepted" /\ stock # loaded.stock

\* C15: when two invocations on the same store have each reported a
\* successful mutating operation, the store file holds what both of them
\* added to the stash.
C15_NoLostUpdate ==
    (pc = "done" /\ outcome = "ok" /\ op.kind \in Mutating
        /\ prev.kind = "Accept" /\ prev.outcome = "ok" /\ prev.net = net)
    => /\ disk[net].state = "ok"
       /\ Grows(prev.stock, disk[net].stock)
       /\ Grows([stock EXCEPT !.secrets = {}], disk[net].stock)
       /\ stock.secrets \subseteq disk[net].stock.secrets

\* The issue handler has a store with the schema, the interface and an
\* implementation, and a document whose globals are all declared and typed:
\* it gets as far as the assignments of the document.
IssueReachesAssignments ==
    /\ op.kind = "Issue" /\ loaded.ok
    /\ op.id \in Ids(loaded.stock.schemata)
    /\ IssueDoc(op.doc).iface \in Ids(loaded.stock.ifaces)
    /\ loaded.stock.iimpls # {}
    /\ \A i \in DOMAIN IssueDoc(op.doc).globals :
            /\ IssueDoc(op.doc).globals[i].name \in IfaceGlobals
            /\ IssueDoc(op.doc).globals[i].typeOk

\* Every assignment of the document names a declared field of fungible state
\* and gives a seal and an amount.
AssignsWellFormed(doc) ==
    \A i \in DOMAIN doc.assigns :
        /\ doc.assigns[i].name \in Range(IfaceAssignments)
        /\ OwnedStateType(doc.assigns[i].name) = "Fungible"
        /\ SealParses(doc.assigns[i].seal)
        /\ doc.assigns[i].hasAmount

\* Two assignments of the document name the same ledger output.
DocRepeatsOutput(doc) ==
    \E i, j \in DOMAIN doc.assigns :
        i # j /\ OutpointOf(doc.assigns[i].seal) = OutpointOf(doc.assigns[j].seal)

\* The genesis allocations of every contract in st are on distinct outputs.
GenesisSealsDistinct(st) ==
    \A i, j \in DOMAIN st.allocs :
        (i # j /\ st.allocs[i].contract = st.allocs[j].contract
            /\ st.allocs[i].tid = 0 /\ st.allocs[j].tid = 0)
        => st.allocs[i].seal # st.allocs[j].seal

DocUndeclaredField(doc) ==
    \/ \E i \in DOMAIN doc.globals : doc.globals[i].name \notin IfaceGlobals
    \/ \E i \in DOMAIN doc.assigns : doc.assigns[i].name \notin Range(IfaceAssignments)

\* The document gives a declared global a value of the wrong type.
DocTypeMismatch(doc) ==
    \E i \in DOMAIN doc.globals :
        doc.globals[i].name \in IfaceGlobals /\ ~doc.globals[i].typeOk

\* The document lacks a key the handler reads.
DocMissingKey(doc) ==
    doc.iface = "" \/ \E i \in DOMAIN doc.assigns : ~doc.assigns[i].hasAmount

\* C17: an issue on a malformed document (a missing key, an undeclared global
\* or assignment name, a value of the wrong type) returns an error value,
\* UnknownField for an undeclared name and SchemaViolation for a wrong type,
\* and leaves the stash as it was.
C17_MalformedIssueTypedError ==
    (op.kind = "Issue" /\ loaded.ok /\ pc = "done" /\ outcome # "crash"
        /\ op.id \in Ids(loaded.stock.schemata)
        /\ loaded.stock.iimpls # {}
        /\ (IssueDoc(op.doc).iface # ""
                => IssueDoc(op.doc).iface \in Ids(loaded.stock.ifaces))
        /\ (DocUndeclaredField(IssueDoc(op.doc)) \/ DocTypeMismatch(IssueDoc(op.doc))
                \/ DocMissingKey(IssueDoc(op.doc))))
    => /\ outcome = "err"
       /\ stock = loaded.stock
       /\ (~DocMissingKey(IssueDoc(op.doc)) /\ DocUndeclaredField(IssueDoc(op.doc))
                /\ ~DocTypeMismatch(IssueDoc(op.doc)))
            => errKind = "UnknownField"
       /\ (~DocMissingKey(IssueDoc(op.doc)) /\ DocTypeMismatch(IssueDoc(op.doc))
                /\ ~DocUndeclaredField(IssueDoc(op.doc)))
            => errKind = "SchemaViolation"

\* The document leaves out a global the schema makes mandatory.
DocIncomplete(doc) ==
    ~(IfaceGlobals \subseteq {doc.globals[i].name : i \in DOMAIN doc.globals})

\* C18: an issue on a well-formed document that leaves a mandatory field
\* unpopulated returns IncompleteContract as an error value, and the stash
\* holds no contract it did not hold before.
C18_IncompleteContractReturned ==
    (IssueReachesAssignments /\ AssignsWellFormed(IssueDoc(op.doc))
        /\ ~DocRepeatsOutput(IssueDoc(op.doc)) /\ DocIncomplete(IssueDoc(op.doc))
        /\ pc = "done" /\ outcome # "crash")
    => /\ outcome = "err"
       /\ errKind = "IncompleteContract"
       /\ stock = loaded.stock

\* The command is one of the variants the handler leaves unimplemented: an
\* armored import, the import of a transfer bundle, an issue that assigns
\* state of another kind than fungible, the contractum format of inspect.
UnimplementedVariant ==
    \/ op.kind = "Import" /\ (op.armored \/ op.bkind = "transfer")
    \/ /\ IssueReachesAssignments
       /\ IssueDoc(op.doc).assigns # <<>>
       /\ IssueDoc(op.doc).assigns[1].name \in Range(IfaceAssignments)
       /\ SealParses(IssueDoc(op.doc).assigns[1].seal)
       /\ OwnedStateType(IssueDoc(op.doc).assigns[1].name) # "Fungible"
    \/ op.kind = "Inspect" /\ op.format = "contractum"

\* C19: an unimplemented variant ends with the error value Unsupported: it
\* does not panic, does not report success and leaves the stash as it was.
C19_UnsupportedAsErrorValue ==
    (UnimplementedVariant /\ loaded.ok /\ pc = "done" /\ outcome # "crash"
        /\ errKind # "Load")
    => (outcome = "err" /\ errKind = "Unsupported" /\ stock = loaded.stock)

C21_StateAfterIssue ==
    (pc = "done" /\ op.kind = "State" /\ op.address = "none" /\ op.contract = "c2"
        /\ op.iface = "RGB20" /\ outcome # "crash" /\ loaded.ok
        /\ prev.kind = "Issue" /\ prev.outcome = "ok" /\ prev.net = net)
    => /\ outcome = "ok"
       /\ out.globals =
            {<<"c2", IssueDoc(prev.doc).globals[i].name,
               IssueDoc(prev.doc).globals[i].value>> :
                i \in DOMAIN IssueDoc(prev.doc).globals}
       /\ out.allocs =
            {Alloc("c2", IssueDoc(prev.doc).assigns[i].name,
                   OutpointOf(IssueDoc(prev.doc).assigns[i].seal),
                   IssueDoc(prev.doc).assigns[i].amount, 0) :
                i \in DOMAIN IssueDoc(prev.doc).assigns}

\* C22: the import of the armored file an export of a contract has just
\* written succeeds and leaves in the stash the contract under the same id
\* with its globals and allocations.
C22_ArmoredRoundTrip ==
    (pc = "done" /\ op.kind = "Import" /\ op.armored /\ op.bkind = "contract"
        /\ loaded.ok /\ outcome # "crash"
        /\ prev.kind = "Export" /\ prev.outcome = "ok" /\ prev.armored
        /\ prev.contract = op.id)
    => /\ outcome = "ok"
       /\ op.id \in Ids(stock.contracts)
       /\ Genesis(op.id, op.content).globals \subseteq stock.globals
       /\ Range(Genesis(op.id, op.content).allocs) \subseteq Range(stock.allocs)

RECURSIVE Concat(_)
Concat(ls) == IF ls = <<>> THEN <<>> ELSE Head(ls) \o Concat(Tail(ls))

\* The index of the empty line that ends the header block of the file f.
HeaderEnd(f) ==
    CHOOSE i \in DOMAIN f : f[i] = BlankLine /\ \A j \in 1..(i - 1) : f[j] # BlankLine

\* The body of the armored file f: the lines after the header block, up to
\* the empty line that precedes the closing plate.
Body(f) == SubSeq(f, HeaderEnd(f) + 1, Len(f) - 2)

\* C23: an armored export begins with the BEGIN RGB CONTRACT plate followed by
\* the Id header and ends with the END RGB CONTRACT plate; the lines of its
\* body have at most 64 characters, all but the last have exactly 64, and put
\* end to end they are the base64 encoding.
C23_ArmoredBodyWrapped ==
    out.file # <<>> =>
        /\ out.file[1].mark = "-----BEGIN RGB CONTRACT-----"
        /\ out.file[2].mark = "Id:"
        /\ out.file[Len(out.file)].mark = "-----END RGB CONTRACT-----"
        /\ out.file[Len(out.file) - 1] = BlankLine
        /\ \A i \in DOMAIN Body(out.file) :
                /\ Body(out.file)[i].mark = ""
                /\ Len(Body(out.file)[i].chars) <= LineWidth
                /\ i < Len(Body(out.file))
                    => Len(Body(out.file)[i].chars) = LineWidth
        /\ Concat([i \in DOMAIN Body(out.file) |-> Body(out.file)[i].chars]) = out.b64

C23_Witness ==
    /\ pc = "done" /\ op.kind = "Export" /\ outcome = "ok"
    /\ Len(out.b64) = 2 * LineWidth
    /\ Len(Body(out.file)) = 3
    /\ Body(out.file)[3].chars = <<>>

C25_SealSecretResolves ==
    (loaded.ok /\ prev.kind = "Invoice" /\ prev.outcome = "ok" /\ prev.net = net)
    => /\ \E g \in loaded.stock.secrets :
            ToSecretSeal(g) = ToSecretSeal(GraphSeal(OutpointOf(prev.seal),
                                                     prev.blinding))
       /\ \A g \in loaded.stock.secrets :
            ToSecretSeal(g) = ToSecretSeal(GraphSeal(OutpointOf(prev.seal),
                                                     prev.blinding))
                => g.outpoint = OutpointOf(prev.seal)

\* C26: a failure of the chain resolver, when the handler connects to it or
\* when it queries it, ends the operation with an I/O error value and a stash
\* left as it was: the operation does not panic.
C26_ResolverFailureIsError ==
    (pc = "done" /\ errKind = "Electrum")
    => /\ outcome = "err"
       /\ loaded.ok => stock = loaded.stock

\* C27: a state query with an address reports, over all the assignment fields
\* of the interface, the fungible allocations of the contract that sit on an
\* unspent output of the address, and no other allocation.
C27_StateAddressFilter ==
    (pc = "done" /\ op.kind = "State" /\ op.address # "none" /\ outcome = "ok")
    => out.allocs =
        {a \in ContractAllocs(stock, op.contract) :
            /\ a.field \in Range(IfaceAssignments)
            /\ OwnedStateType(a.field) = "Fungible"
            /\ a.seal \in out.utxo}

\* A step leaves alone the store file of every network but the one of the
\* running invocation, and no store file changes between invocations.
OtherStoresUnchanged ==
    /\ pc = "idle" => disk' = disk
    /\ pc # "idle" => \A n \in Networks \ {net} : disk'[n] = disk[n]

\* C28: there is one store file per network: an invocation for network N
\* loads the stock of the store file of N, or creates that file when there is
\* none, and no step of it changes the store file of another network.
C28_OneStorePerNetwork ==
    /\ [](loaded.ok =>
            \/ disk0.state = "ok" /\ loaded.stock = disk0.stock
            \/ disk0.state = "absent" /\ loaded.stock = EmptyStock
                    /\ disk[net] = File(EmptyStock))
    /\ [][OtherStoresUnchanged]_vars

C28_Witness ==
    /\ pc = "done" /\ net = "bitcoin" /\ loaded.ok /\ disk0 = AbsentFile
    /\ disk["bitcoin"] = File(EmptyStock)
    /\ disk["testnet"].state = "ok" /\ disk["testnet"].stock # EmptyStock

\* C29: validate leaves the stash in memory and the store file as they were,
\* and on a consignment that loads, valid or not, it returns success and
\* reports the status as text only.
C29_ValidateFrame ==
    (op.kind = "Validate" /\ loaded.ok)
    => /\ stock = loaded.stock
       /\ disk[net] = File(loaded.stock)
       /\ (pc = "done" /\ outcome # "crash" /\ errKind # "Load")
            => (outcome = "ok" /\ out.text = {status})

C29_Witness ==
    /\ pc = "done" /\ op.kind = "Validate" /\ outcome = "ok"
    /\ HasErrors(status) /\ out.text = {status}
    /\ stock = loaded.stock /\ stock # EmptyStock

\* Every input of the PSBT carries a final script signature or a final script
\* witness, and there are as many of them as the unsigned transaction has.
PsbtFinal(psbt) ==
    /\ psbt.txin = Len(psbt.inputs)
    /\ \A i \in DOMAIN psbt.inputs : psbt.inputs[i].sig \/ psbt.inputs[i].wit

\* C30: broadcast sends the transaction only of a PSBT that has as many
\* inputs as its unsigned transaction, each with a final script signature or
\* a final script witness; on any other PSBT it returns an error and sends
\* nothing, and it turns down no PSBT that is final in this sense.
C30_BroadcastOnlyFinal ==
    op.kind = "Broadcast" =>
        /\ out.sent # {} => (PsbtFinal(op.psbt) /\ out.sent = {op.psbt})
        /\ (pc = "done" /\ ~PsbtFinal(op.psbt))
            => (outcome = "err" /\ out.sent = {}
                /\ errKind \in {"Io", "Malformed", "NotFinal"})
        /\ (pc = "done" /\ PsbtFinal(op.psbt))
            => errKind \notin {"Malformed", "NotFinal"}
        /\ (pc = "done" /\ outcome = "ok") => out.sent = {op.psbt}

C30_Witness ==
    /\ pc = "done" /\ op.kind = "Broadcast" /\ outcome = "ok"
    /\ out.sent = {op.psbt}
    /\ Len(op.psbt.inputs) = 2
    /\ op.psbt.inputs[1].sig /\ ~op.psbt.inputs[1].wit
    /\ ~op.psbt.inputs[2].sig /\ op.psbt.inputs[2].wit

====
